---- MODULE Spec2Model ----
(***************************************************************************)
(* A model of ppt_processor.py (class PPTProcessor): the slide-content     *)
(* extraction and text-assembly pipeline, the flashcard generator, the     *)
(* legacy conversion retry loop and the batch driver.                      *)
(*                                                                         *)
(* Text is a sequence of tokens: single characters ("a", " ", "\n") and    *)
(* fixed literals of the program ("CHAPTER: ", the 50-character banners).  *)
(* A directory is a function from the stems of its files to their          *)
(* contents.                                                               *)
(***************************************************************************)
EXTENDS Integers, Sequences, FiniteSets, TLC

VARIABLES
    pptx,         \* <base>/pptx: stem -> container (a sequence of slides)
    defaultDir,   \* <base>/text/default: stem -> text
    notedDir,     \* <base>/text/noted: stem -> text
    tempDir,      \* <base>/.temp: the stems s whose "<s>_temp.pptx" exists
    combined,     \* <base>/text: "combined_notes" -> text, when the file exists
    studyGuide,   \* <base>: "study_guide" -> text, when the file exists
    last,         \* the call that has just returned, with what it returned
    edits,        \* how often the user has replaced a container between runs
    shape,        \* the shape handed to extract_text_from_shape
    shapeResult,  \* what extract_text_from_shape returned for it, or Pending
    basePpt,      \* <base>: the stems of its legacy .ppt files
    basePptx,     \* <base>: stem -> container, its .pptx files
    powerpoint,   \* self.powerpoint: a session id, or 0 for None
    sessions,     \* the ids of the PowerPoint sessions that are live
    nextId,       \* the id the next session gets
    killed,       \* taskkill was issued and no session was started since
    pc,           \* where process_files is
    todo,         \* the files the running loop of process_files has left
    conv,         \* the attempts of the running or last convert_ppt_to_pptx
    run           \* what the batch run did so far

fsVars == <<pptx, defaultDir, notedDir, tempDir, combined, studyGuide>>
shapeVars == <<shape, shapeResult>>
sessionVars == <<powerpoint, sessions, nextId, killed>>
batchVars == <<basePpt, basePptx, powerpoint, sessions, nextId, killed, pc, todo, conv, run>>
vars == <<pptx, defaultDir, notedDir, tempDir, combined, studyGuide, last, edits,
          shape, shapeResult,
          basePpt, basePptx, powerpoint, sessions, nextId, killed, pc, todo, conv, run>>

----------------------------------------------------------------------------
(* Bounds of the model. *)

\* Number of file stems in the combiner's directories.
NumStems == 3
\* Number of container files in the extractor's pptx directory.
NumContainers == 1
\* How many times a container is replaced between extraction runs.
MaxEdits == 1
\* Largest table of the shape extractor's inputs.
MaxRows == 2
MaxCells == 2
\* Longest line (in tokens) and most lines of a model's output.
MaxLineLen == 4
MaxLines == 2
\* Number of legacy files of a batch run.
NumPpt == 2

\* retry_count of convert_ppt_to_pptx
RetryCount == 2

----------------------------------------------------------------------------
(* Names and text helpers. *)

\* A directory holding no file, and a directory after a file is written.
EmptyDir == [x \in {} |-> <<>>]
Put(dir, s, content) ==
    [x \in DOMAIN dir \cup {s} |-> IF x = s THEN content ELSE dir[x]]
\* A directory after a file is unlinked or moved away.
Remove(dir, s) == [x \in DOMAIN dir \ {s} |-> dir[x]]
\* Every directory holding files named in S with contents in C.
Dirs(S, C) == UNION {[D -> C] : D \in SUBSET S}
NoCall == [op |-> "none"]

\* File stems, in ascending file-name order.
StemNames == <<"A", "B", "C", "D", "E", "F">>
Stems == {StemNames[i] : i \in 1..NumStems}
ExtractStems == {StemNames[i] : i \in 1..NumContainers}
Rank(s) == CHOOSE i \in DOMAIN StemNames : StemNames[i] = s

\* str(slide_number)
NumStr == <<"1", "2", "3", "4">>

Bar50 == "=*50"
Dash50 == "-*50"
Whitespace == {" ", "\n"}

\* str.strip(): leading and trailing whitespace removed.
RECURSIVE LStrip(_)
LStrip(s) ==
    IF s = <<>> THEN <<>>
    ELSE IF Head(s) \in Whitespace THEN LStrip(Tail(s)) ELSE s

RECURSIVE RStrip(_)
RStrip(s) ==
    IF s = <<>> THEN <<>>
    ELSE IF s[Len(s)] \in Whitespace THEN RStrip(SubSeq(s, 1, Len(s) - 1)) ELSE s

Strip(s) == RStrip(LStrip(s))

\* sep.join(parts)
RECURSIVE Join(_, _)
Join(sep, parts) ==
    IF parts = <<>> THEN <<>>
    ELSE IF Len(parts) = 1 THEN parts[1]
    ELSE parts[1] \o sep \o Join(sep, Tail(parts))

\* A directory listing left unsorted (here: in descending order).
RECURSIVE UnsortedStems(_)
UnsortedStems(S) ==
    IF S = {} THEN <<>>
    ELSE LET m == CHOOSE x \in S : \A y \in S : Rank(x) >= Rank(y)
         IN  <<m>> \o UnsortedStems(S \ {m})

\* sorted(paths): ascending by file name.
RECURSIVE SortedStems(_)
SortedStems(S) ==
    IF S = {} THEN <<>>
    ELSE LET m == CHOOSE x \in S : \A y \in S : Rank(x) <= Rank(y)
         IN  <<m>> \o SortedStems(S \ {m})

\* dir.glob("*.txt"): the stems of the files present.
Glob(dir) == DOMAIN dir

----------------------------------------------------------------------------
(* Shapes (python-pptx objects, probed by attribute).                       *)
(* attrs: the attributes hasattr() finds; raises: the access that raises an *)
(* error other than AttributeError ("none" when every access succeeds);     *)
(* failRow: the table row whose cells cannot be read (0: every row reads).  *)

Pending == <<"Pending">>

Shape(attrs, text, has_table, rows, has_chart, chart_attrs, chart_title, raises, failRow) ==
    [attrs |-> attrs, text |-> text, has_table |-> has_table, rows |-> rows,
     has_chart |-> has_chart, chart_attrs |-> chart_attrs,
     chart_title |-> chart_title, raises |-> raises, failRow |-> failRow]

TextShape(t) == Shape({"text"}, t, FALSE, <<>>, FALSE, {}, <<>>, "none", 0)
PictureShape == Shape({}, <<>>, FALSE, <<>>, FALSE, {}, <<>>, "none", 0)

\* " | ".join(cell.text.strip() for cell in row.cells) + "\n"
RowText(row) ==
    Join(<<" ", "|", " ">>, [i \in DOMAIN row |-> Strip(row[i])]) \o <<"\n">>

\* text after the loop over table.rows has read the first n rows
RECURSIVE TableText(_, _)
TableText(rows, n) ==
    IF n = 0 THEN <<>> ELSE TableText(rows, n - 1) \o RowText(rows[n])

\* f"[Chart: {chart.chart_title if hasattr(chart, 'chart_title') else 'Untitled'}]\n"
ChartText(s) ==
    <<"[Chart: ">>
    \o (IF "chart_title" \in s.chart_attrs THEN s.chart_title ELSE <<"Untitled">>)
    \o <<"]", "\n">>

\* The value of the local text when the try block of extract_text_from_shape
\* is left, normally or by an exception.
ShapeTryText(s) ==
    IF "text" \in s.attrs
    THEN IF s.raises = "text" THEN <<>> ELSE s.text
    ELSE IF "has_table" \in s.attrs /\ s.has_table
    THEN IF s.raises = "table" THEN <<>>
         ELSE IF s.failRow \in 1..Len(s.rows) THEN TableText(s.rows, s.failRow - 1)
         ELSE TableText(s.rows, Len(s.rows))
    ELSE IF "has_chart" \in s.attrs /\ s.has_chart
    THEN IF s.raises = "chart" THEN <<>> ELSE ChartText(s)
    ELSE <<>>

\* extract_text_from_shape: the except clause swallows the error, then text.strip()
ExtractTextFromShape(s) == Strip(ShapeTryText(s))

----------------------------------------------------------------------------
(* Slides and presentations.                                                *)
(* A slide is [shapes, has_notes_slide, notes]; a container is a sequence   *)
(* of slides.                                                               *)

Slide(shapes, has_notes_slide, notes) ==
    [shapes |-> shapes, has_notes_slide |-> has_notes_slide, notes |-> notes]

\* extract_notes
ExtractNotes(slide) ==
    Strip(IF slide.has_notes_slide THEN slide.notes ELSE <<>>)

\* slide_text of extract_from_slide
RECURSIVE ShapesText(_)
ShapesText(shapes) ==
    IF shapes = <<>> THEN <<>>
    ELSE LET text == ExtractTextFromShape(Head(shapes))
         IN  (IF text # <<>> THEN text \o <<"\n", "\n">> ELSE <<>>)
             \o ShapesText(Tail(shapes))

SlideText(slide, n) ==
    <<"\n", Bar50, "\n", "Slide ", NumStr[n], "\n", Bar50, "\n", "\n">>
    \o ShapesText(slide.shapes)

\* notes_text of extract_from_slide
NotesText(slide, n) ==
    LET notes == ExtractNotes(slide)
    IN  IF notes # <<>>
        THEN <<"\n", "Notes for Slide ", NumStr[n], ":", "\n">> \o notes \o <<"\n">>
        ELSE <<>>

\* main_content and notes_content of convert_pptx_to_text
MainContent(prs) == [n \in DOMAIN prs |-> SlideText(prs[n], n)]

RECURSIVE NotesContentFrom(_, _)
NotesContentFrom(prs, n) ==
    IF n > Len(prs) THEN <<>>
    ELSE (IF NotesText(prs[n], n) # <<>> THEN <<NotesText(prs[n], n)>> ELSE <<>>)
         \o NotesContentFrom(prs, n + 1)

NotesContent(prs) == NotesContentFrom(prs, 1)

NotesSection == <<"\n", "\n", "SLIDE NOTES", "\n", "==========", "\n">>

\* "\n".join(main_content)
DefaultText(prs) == Join(<<"\n">>, MainContent(prs))

\* "\n".join(main_content + ["\n\nSLIDE NOTES\n==========\n"] + notes_content)
NotedText(prs) ==
    Join(<<"\n">>, MainContent(prs) \o <<NotesSection>> \o NotesContent(prs))

\* The slides and containers of the runs.
SlideA == Slide(<<TextShape(<<"a">>)>>, FALSE, <<>>)
SlideANoted == Slide(<<TextShape(<<"a">>)>>, TRUE, <<"n">>)
SlideBBlank == Slide(<<TextShape(<<"b">>), PictureShape>>, TRUE, <<" ">>)
Containers == {<<>>, <<SlideA>>, <<SlideANoted>>, <<SlideBBlank>>, <<SlideA, SlideANoted>>}

----------------------------------------------------------------------------
(* convert_pptx_to_text                                                     *)

\* A finally clause that leaves the working copy behind.
KeepWorkingCopy(temp, s) == temp

\* The finally clause: the working copy is unlinked if it exists (the unlink
\* itself is taken to succeed; its failure is swallowed by the code).
RemoveWorkingCopy(temp, s) == temp \ {s}

ExtractFaults == {"none", "copy", "open", "iterate", "write_default", "write_noted"}

\* open(path, 'w') followed by f.write(text), which fails when failed:
\* the file is left as it was (open failed) or truncated (write failed).
WriteFile(dir, s, text, failed, truncated) ==
    IF ~failed THEN Put(dir, s, text)
    ELSE IF truncated THEN Put(dir, s, <<>>)
    ELSE dir

\* What the try block of convert_pptx_to_text leaves behind when fault strikes.
ExtractTry(s, fault, partial) ==
    LET prs == pptx[s]
        reached_write == fault \in {"none", "write_default", "write_noted"}
        default_after ==
            IF reached_write
            THEN WriteFile(defaultDir, s, DefaultText(prs), fault = "write_default", partial)
            ELSE defaultDir
        noted_after ==
            IF fault \in {"none", "write_noted"} /\ NotesContent(prs) # <<>>
            THEN WriteFile(notedDir, s, NotedText(prs), fault = "write_noted", partial)
            ELSE notedDir
    IN  [temp |-> IF fault = "copy" /\ ~partial THEN tempDir ELSE tempDir \cup {s},
         default |-> default_after,
         noted |-> noted_after,
         \* return True at the end of the try block, False from the except clause
         ret |-> fault = "none",
         \* except Exception catches every error of the try block
         raised |-> FALSE]

ConvertPptxToText(s, fault, partial) ==
    /\ s \in DOMAIN pptx
    /\ fault = "write_noted" => NotesContent(pptx[s]) # <<>>
    /\ fault \in {"none", "open", "iterate"} => ~partial
    /\ LET r == ExtractTry(s, fault, partial)
       IN  /\ defaultDir' = r.default
           /\ notedDir' = r.noted
           /\ tempDir' = RemoveWorkingCopy(r.temp, s)
           /\ last' = [op |-> "extract", stem |-> s, fault |-> fault, ret |-> r.ret,
                       raised |-> r.raised, orig |-> pptx[s]]
    /\ UNCHANGED <<pptx, combined, studyGuide, edits, shapeVars, batchVars>>

\* Between two runs the user replaces a container by another one.
EditContainer(s, c) ==
    /\ edits < MaxEdits
    /\ s \in DOMAIN pptx
    /\ pptx[s] # c
    /\ pptx' = Put(pptx, s, c)
    /\ edits' = edits + 1
    /\ last' = NoCall
    /\ UNCHANGED <<defaultDir, notedDir, tempDir, combined, studyGuide, shapeVars, batchVars>>

----------------------------------------------------------------------------
(* combine_text_files                                                       *)

CombinedHeader == <<"COMBINED LECTURE NOTES", "\n", Bar50, "\n", "\n">>

\* One chapter: banner, the file's content, two newlines.
Chapter(base_name, content) ==
    <<"\n", "CHAPTER: ", base_name, "\n", Dash50, "\n">> \o content \o <<"\n", "\n">>

RECURSIVE Chapters(_, _)
Chapters(files, dir) ==
    IF files = <<>> THEN <<>>
    ELSE Chapter(Head(files), dir[Head(files)]) \o Chapters(Tail(files), dir)

\* A second loop that writes every default file.
DefaultToWriteAll(default_files, processed_files) == default_files

\* The default files the second loop writes: those whose stem is not processed.
DefaultToWrite(default_files, processed_files) ==
    SelectSeq(default_files, LAMBDA f : f \notin processed_files)

CombinedText(dDir, nDir) ==
    LET default_files == SortedStems(Glob(dDir))
        noted_files == SortedStems(Glob(nDir))
        processed_files == {noted_files[i] : i \in DOMAIN noted_files}
    IN  CombinedHeader
        \o Chapters(noted_files, nDir)
        \o Chapters(DefaultToWrite(default_files, processed_files), dDir)

CombineTextFiles ==
    /\ combined' = Put(combined, "combined_notes", CombinedText(defaultDir, notedDir))
    /\ last' = [op |-> "combine"]
    /\ UNCHANGED <<pptx, defaultDir, notedDir, tempDir, studyGuide, edits, shapeVars, batchVars>>

----------------------------------------------------------------------------
(* generate_study_guide and _generate_with_backup_model                     *)
(* A model invocation ends as [kind |-> "notfound"] (the executable cannot  *)
(* be launched) or [kind |-> "exit", rc, stdout].  The separator ":::" is   *)
(* one token and no text holds a single colon, so the first ":::" token of  *)
(* a line is the first occurrence of the separator in it.  "[fence]" is the *)
(* code-fence marker of three backquotes.                                   *)

GuideHeader ==
    <<"DIGITAL MEDIA STUDY GUIDE", "\n", "=*32", "\n", "\n",
      "Format: Term:::Definition", "\n", "Ready for Quizlet Import", "\n", "\n",
      "-*32", "\n", "\n">>

Placeholder ==
    <<"Error generating study guide. Please check the log file for details.">>

\* text.split('\n')
RECURSIVE SplitLines(_)
SplitLines(text) ==
    IF \A i \in DOMAIN text : text[i] # "\n" THEN <<text>>
    ELSE LET i == CHOOSE k \in DOMAIN text :
                      text[k] = "\n" /\ \A j \in 1..(k - 1) : text[j] # "\n"
         IN  <<SubSeq(text, 1, i - 1)>> \o SplitLines(SubSeq(text, i + 1, Len(text)))

HasSeparator(line) == \E i \in DOMAIN line : line[i] = ":::"
StartsWith(line, token) == line # <<>> /\ Head(line) = token

\* line.rsplit(':::', 1): a split at the last separator.
SplitAtLast(line) ==
    LET i == CHOOSE k \in DOMAIN line :
                 line[k] = ":::" /\ \A j \in (k + 1)..Len(line) : line[j] # ":::"
    IN  <<SubSeq(line, 1, i - 1), SubSeq(line, i + 1, Len(line))>>

\* line.split(':::', 1)
SplitAtFirst(line) ==
    LET i == CHOOSE k \in DOMAIN line :
                 line[k] = ":::" /\ \A j \in 1..(k - 1) : line[j] # ":::"
    IN  <<SubSeq(line, 1, i - 1), SubSeq(line, i + 1, Len(line))>>

\* valid_cards after the loop over output.split('\n')
RECURSIVE ValidCards(_)
ValidCards(lines) ==
    IF lines = <<>> THEN <<>>
    ELSE LET line == Strip(Head(lines))
             parts == SplitAtFirst(line)
             term == parts[1]
             definition == parts[2]
         IN  (IF /\ HasSeparator(line)
                 /\ ~StartsWith(line, "[fence]")
                 /\ ~StartsWith(line, "#")
                 /\ Strip(term) # <<>>
                 /\ Strip(definition) # <<>>
              THEN <<Strip(term) \o <<":::">> \o Strip(definition)>>
              ELSE <<>>)
             \o ValidCards(Tail(lines))

\* The names that resolve inside _generate_with_backup_model: its parameter,
\* the locals it assigns and the module's globals.  content and
\* study_guide_file are locals of generate_study_guide and are not among them.
BackupScope ==
    {"self", "result", "final_content", "f", "e",
     "os", "sys", "logging", "Path", "win32com", "time", "Presentation", "List",
     "Tuple", "tqdm", "shutil", "subprocess", "re", "PPTProcessor", "main"}

\* _generate_with_backup_model on the study guide directory guide:
\* launched: subprocess.run was called; raised: an exception leaves the
\* method; cleared: line 196 (self.powerpoint = None) was executed; calls:
\* how often the method has been called.
BackupModel(guide, sec) ==
    LET \* the try block fails before or in subprocess.run, or at the else branch
        launched == "content" \in BackupScope
        usable == /\ launched
                  /\ sec.kind = "exit"
                  /\ sec.rc = 0
                  /\ HasSeparator(sec.stdout)
        try_writes == usable /\ "study_guide_file" \in BackupScope
    IN  IF try_writes
        THEN [guide |-> Put(guide, "study_guide", GuideHeader \o Strip(sec.stdout)),
              wrote |-> "guide", launched |-> TRUE, raised |-> FALSE, cleared |-> TRUE,
              calls |-> 1]
        \* the except clause: log, then write the placeholder to study_guide_file
        ELSE IF "study_guide_file" \in BackupScope
        THEN [guide |-> Put(guide, "study_guide", Placeholder),
              wrote |-> "placeholder", launched |-> launched, raised |-> FALSE,
              cleared |-> TRUE, calls |-> 1]
        ELSE [guide |-> guide, wrote |-> "none", launched |-> launched,
              raised |-> TRUE, cleared |-> FALSE, calls |-> 1]

\* generate_study_guide on the study guide directory guide.
GenerateStudyGuide(guide, prim, sec) ==
    LET none == [guide |-> guide, wrote |-> "none", launched |-> FALSE,
                 raised |-> FALSE, cleared |-> FALSE, calls |-> 0]
        cards == ValidCards(SplitLines(Strip(prim.stdout)))
        first == BackupModel(guide, sec)
        \* the except clause of generate_study_guide calls the backup (again)
        again == BackupModel(first.guide, sec)
    IN  IF "combined_notes" \notin DOMAIN combined THEN none
        \* except FileNotFoundError: logged, the method ends
        ELSE IF prim.kind = "notfound" THEN none
        \* raise Exception(f"LLM error: ..."), caught by except Exception
        ELSE IF prim.rc # 0 THEN first
        ELSE IF cards # <<>>
        THEN [none EXCEPT !.guide = Put(guide, "study_guide",
                                        GuideHeader \o Join(<<"\n">>, cards)),
                          !.wrote = "guide"]
        \* no valid cards: return self._generate_with_backup_model(), inside the try
        ELSE IF ~first.raised THEN first
        ELSE [again EXCEPT !.calls = 2, !.launched = first.launched \/ again.launched]

GenerateCall(prim, sec) ==
    /\ last.op = "none"
    /\ LET r == GenerateStudyGuide(studyGuide, prim, sec)
       IN  /\ studyGuide' = r.guide
           /\ last' = [op |-> "generate", prim |-> prim, sec |-> sec,
                       wrote |-> r.wrote, launched |-> r.launched,
                       raised |-> r.raised, calls |-> r.calls]
    /\ UNCHANGED <<pptx, defaultDir, notedDir, tempDir, combined, edits, shapeVars, batchVars>>

----------------------------------------------------------------------------
(* The automation session: init_powerpoint and quit_powerpoint              *)

\* os.system("taskkill /f /im powerpnt.exe"): every live session is killed.
TaskKill(live) == {}

\* An init_powerpoint that starts a session whatever it holds.
InitPowerpointAlways(pp, live, nid, dispatch) ==
    [powerpoint |-> nid, sessions |-> live \cup {nid}, nextId |-> nid + 1,
     killed |-> FALSE, raised |-> FALSE]

\* init_powerpoint.  dispatch: "ok"; "fail" (Dispatch raises); "partial" (the
\* session is started and assigned, then setting Visible or WindowState raises).
InitPowerpoint(pp, live, nid, dispatch) ==
    IF pp # 0
    THEN [powerpoint |-> pp, sessions |-> live, nextId |-> nid, killed |-> FALSE,
          raised |-> FALSE]
    ELSE IF dispatch = "fail"
    THEN [powerpoint |-> 0, sessions |-> TaskKill(live), nextId |-> nid,
          killed |-> TRUE, raised |-> TRUE]
    ELSE [powerpoint |-> nid, sessions |-> TaskKill(live) \cup {nid}, nextId |-> nid + 1,
          killed |-> FALSE, raised |-> dispatch = "partial"]

\* quit_powerpoint: Quit() on the held session (its error is swallowed), the
\* handle cleared, then the forced kill.
QuitPowerpoint(pp, live, quitOk) ==
    LET afterQuit == IF pp # 0 /\ quitOk THEN live \ {pp} ELSE live
    IN  [powerpoint |-> 0, sessions |-> TaskKill(afterQuit), killed |-> TRUE]

----------------------------------------------------------------------------
(* convert_ppt_to_pptx: one attempt of the retry loop per step             *)

\* The container PowerPoint saves for a legacy file.
ConvertedContainer == <<SlideANoted>>

ConvertOutcomes ==
    {"init_fail", "open_fail", "save_fail", "close_fail", "move_fail", "ok", "no_output"}
ConvertSucceeded(outcome) == outcome \in {"ok", "no_output"}

\* An except clause that keeps the session for the next attempt.
ConvertExceptKeepSession(pp, live, temp, f, quitOk) ==
    [powerpoint |-> pp, sessions |-> live, killed |-> FALSE, temp |-> temp \ {f}]

\* The except clause of an attempt: quit_powerpoint, then the scratch output is
\* unlinked if it exists.
ConvertExcept(pp, live, temp, f, quitOk) ==
    LET q == QuitPowerpoint(pp, live, quitOk)
    IN  [powerpoint |-> q.powerpoint, sessions |-> q.sessions, killed |-> q.killed,
         temp |-> temp \ {f}]

\* The conversion record when an attempt on f starts, and after it ended:
\* whether each attempt succeeded, the session each attempt used (0: none),
\* and what the call returned, if it has.
ConvStarted(f) ==
    IF conv.result = "running" THEN conv
    ELSE [stem |-> f, outcomes |-> <<>>, used |-> <<>>, result |-> "running"]

ConvAfter(c, outcome, session) ==
    LET outcomes == Append(c.outcomes, IF ConvertSucceeded(outcome) THEN "ok" ELSE "fail")
    IN  [stem |-> c.stem, outcomes |-> outcomes, used |-> Append(c.used, session),
         result |-> IF ConvertSucceeded(outcome) THEN "true"
                    ELSE IF Len(outcomes) = RetryCount THEN "false"
                    ELSE "running"]

\* One iteration of the loop "for attempt in range(retry_count)" on the file
\* process_files is converting.
\*   partial: SaveAs left a scratch file before it raised; or the old final
\*            output was unlinked before the move raised.
\*   rmOk:    input_file.unlink() succeeded.
ConvertAttempt(outcome, dispatch, partial, rmOk, quitOk) ==
    /\ pc = "convert"
    /\ todo # <<>>
    /\ LET f == Head(todo)
           c == ConvStarted(f)
           init == InitPowerpoint(powerpoint, sessions, nextId, dispatch)
           scratch ==
               IF outcome \in {"close_fail", "move_fail", "ok"} THEN tempDir \cup {f}
               ELSE IF outcome = "save_fail" /\ partial THEN tempDir \cup {f}
               ELSE tempDir
           handled == ConvertExcept(init.powerpoint, init.sessions, scratch, f, quitOk)
           after == ConvAfter(c, outcome, init.powerpoint)
       IN  /\ init.raised <=> outcome = "init_fail"
           /\ powerpoint # 0 => dispatch = "ok"
           /\ outcome \in {"init_fail", "open_fail", "close_fail", "no_output"} => ~partial
           /\ (ConvertSucceeded(outcome) \/ powerpoint # 0 \/ dispatch = "fail") => quitOk
           /\ ~ConvertSucceeded(outcome) => rmOk
           /\ nextId' = init.nextId
           /\ conv' = after
           /\ IF ConvertSucceeded(outcome)
              THEN /\ powerpoint' = init.powerpoint
                   /\ sessions' = init.sessions
                   /\ killed' = init.killed
                   \* shutil.move(temp_output, final_output)
                   /\ pptx' = IF outcome = "ok" THEN Put(pptx, f, ConvertedContainer)
                              ELSE pptx
                   /\ tempDir' = scratch \ (IF outcome = "ok" THEN {f} ELSE {})
                   \* input_file.unlink()
                   /\ basePpt' = IF rmOk THEN basePpt \ {f} ELSE basePpt
              ELSE /\ powerpoint' = handled.powerpoint
                   /\ sessions' = handled.sessions
                   /\ killed' = handled.killed
                   /\ tempDir' = handled.temp
                   \* final_output.unlink() had run when the move raised
                   /\ pptx' = IF outcome = "move_fail" /\ partial THEN Remove(pptx, f)
                              ELSE pptx
                   /\ basePpt' = basePpt
           /\ todo' = IF after.result = "running" THEN todo ELSE Tail(todo)
           /\ run' = [run EXCEPT
                        !.convFailed = IF after.result = "false" THEN @ \cup {f} ELSE @]
    /\ UNCHANGED <<defaultDir, notedDir, combined, studyGuide, last, edits, shapeVars,
                   basePptx, pc>>

----------------------------------------------------------------------------
(* process_files                                                            *)

\* Lines 408-421: the containers of the base directory are moved to the pptx
\* directory unless the target exists; then the legacy files are listed
\* (a listing is taken in ascending order).
Discover(moveOk) ==
    /\ pc = "start"
    /\ LET movable == DOMAIN basePptx \ DOMAIN pptx
       IN  /\ ~moveOk => movable # {}
           /\ IF moveOk
              THEN /\ pptx' = [x \in DOMAIN pptx \cup movable |->
                                  IF x \in movable THEN basePptx[x] ELSE pptx[x]]
                   /\ basePptx' = [x \in DOMAIN basePptx \ movable |-> basePptx[x]]
                   /\ todo' = SortedStems(basePpt)
                   /\ pc' = "convert"
                   /\ run' = run
              \* shutil.move raises: the finally clause runs, the error leaves
              ELSE /\ UNCHANGED <<pptx, basePptx, todo>>
                   /\ pc' = "finally"
                   /\ run' = [run EXCEPT !.raising = TRUE]
    /\ UNCHANGED <<defaultDir, notedDir, tempDir, combined, studyGuide, last, edits,
                   shapeVars, basePpt, sessionVars, conv>>

\* Lines 427-436: the containers are listed; without any the method returns.
ListPptx ==
    /\ pc = "convert"
    /\ todo = <<>>
    /\ IF DOMAIN pptx = {}
       THEN /\ pc' = "finally"
            /\ todo' = <<>>
       ELSE /\ pc' = "extract"
            /\ todo' = SortedStems(DOMAIN pptx)
    /\ UNCHANGED <<fsVars, last, edits, shapeVars, basePpt, basePptx, sessionVars, conv, run>>

\* Lines 438-443: one iteration of the extraction loop.
ExtractNext(fault, partial) ==
    /\ pc = "extract"
    /\ todo # <<>>
    /\ LET s == Head(todo)
           r == ExtractTry(s, fault, partial)
       IN  /\ fault = "write_noted" => NotesContent(pptx[s]) # <<>>
           /\ fault \in {"none", "open", "iterate"} => ~partial
           /\ defaultDir' = r.default
           /\ notedDir' = r.noted
           /\ tempDir' = RemoveWorkingCopy(r.temp, s)
           /\ run' = [run EXCEPT
                        !.successful = IF r.ret THEN @ + 1 ELSE @,
                        !.failed = IF r.ret THEN @ ELSE @ + 1,
                        !.extractFailed = IF r.ret THEN @ ELSE @ \cup {s}]
    /\ todo' = Tail(todo)
    /\ pc' = IF Tail(todo) = <<>> THEN "combine" ELSE "extract"
    /\ UNCHANGED <<pptx, combined, studyGuide, last, edits, shapeVars,
                   basePpt, basePptx, sessionVars, conv>>

\* Line 446: combine_text_files, which raises when the file cannot be written.
CombineStage(ok) ==
    /\ pc = "combine"
    /\ IF ok
       THEN /\ combined' = Put(combined, "combined_notes", CombinedText(defaultDir, notedDir))
            /\ pc' = "generate"
            /\ run' = [run EXCEPT !.ranCombine = TRUE]
       ELSE /\ combined' = combined
            /\ pc' = "finally"
            /\ run' = [run EXCEPT !.raising = TRUE]
    /\ UNCHANGED <<pptx, defaultDir, notedDir, tempDir, studyGuide, last, edits, shapeVars,
                   basePpt, basePptx, sessionVars, todo, conv>>

\* Lines 449-465: generate_study_guide, then the summary is logged.
GenerateStage(prim, sec) ==
    /\ pc = "generate"
    /\ LET r == GenerateStudyGuide(studyGuide, prim, sec)
       IN  /\ studyGuide' = r.guide
           /\ powerpoint' = IF r.cleared THEN 0 ELSE powerpoint
           /\ run' = [run EXCEPT
                        !.ranGenerate = TRUE,
                        !.raising = r.raised,
                        !.summary = IF r.raised THEN <<>>
                                    ELSE <<[total |-> Cardinality(DOMAIN pptx),
                                            successful |-> run.successful,
                                            failed |-> run.failed]>>]
    /\ pc' = "finally"
    /\ UNCHANGED <<pptx, defaultDir, notedDir, tempDir, combined, last, edits, shapeVars,
                   basePpt, basePptx, sessions, nextId, killed, todo, conv>>

\* Lines 467-474: the finally clause; then the method returns or raises.
Finally(quitOk, rmtreeOk) ==
    /\ pc = "finally"
    /\ LET q == QuitPowerpoint(powerpoint, sessions, quitOk)
       IN  /\ powerpoint' = q.powerpoint
           /\ sessions' = q.sessions
           /\ killed' = q.killed
    /\ powerpoint = 0 => quitOk
    /\ ~rmtreeOk => tempDir # {}
    /\ tempDir' = IF rmtreeOk THEN {} ELSE tempDir
    /\ pc' = "done"
    /\ UNCHANGED <<pptx, defaultDir, notedDir, combined, studyGuide, last, edits, shapeVars,
                   basePpt, basePptx, nextId, todo, conv, run>>

----------------------------------------------------------------------------
(* Inputs of the specifications. *)

FileTexts == {<<"x">>, <<"y">>}


CellTexts == {<<>>, <<"a">>, <<" ", "b", " ">>}
ShapeTexts == {<<>>, <<"a">>, <<" ", "a", "\n">>, <<" ">>}
RECURSIVE SeqsUpTo(_, _)
SeqsUpTo(S, n) ==
    IF n = 0 THEN {<<>>}
    ELSE LET shorter == SeqsUpTo(S, n - 1)
         IN  shorter \cup {Append(q, x) : q \in shorter, x \in S}
TableRows == SeqsUpTo(SeqsUpTo(CellTexts, MaxCells), MaxRows)
SampleRows == <<<< <<"a">>, <<"a">> >>>>

ShapeSet ==
    \* shapes exposing text (some are tables or charts as well)
    {Shape(a \cup {"text"}, t, ht, SampleRows, hc, {"chart_title"}, <<"a">>, r, 0) :
        a \in SUBSET {"has_table", "has_chart"}, t \in ShapeTexts,
        ht \in BOOLEAN, hc \in BOOLEAN, r \in {"none", "text"}}
    \cup
    \* tables
    {Shape({"has_table"} \cup a, <<>>, TRUE, rows, hc, {}, <<>>, r, f) :
        a \in SUBSET {"has_chart"}, rows \in TableRows, hc \in BOOLEAN,
        r \in {"none", "table"}, f \in 0..MaxRows}
    \cup
    \* charts
    {Shape(a \cup {"has_chart"}, <<>>, FALSE, <<>>, TRUE, ca, t, r, 0) :
        a \in SUBSET {"has_table"}, ca \in SUBSET {"chart_title"},
        t \in ShapeTexts, r \in {"none", "chart"}}
    \cup
    \* anything else
    {Shape(a, <<>>, FALSE, <<>>, FALSE, {}, <<>>, "none", 0) :
        a \in SUBSET {"has_table", "has_chart"}}

GenTokens == {"a", " ", ":::", "#", "[fence]"}
SampleLines ==
    {<<"a", ":::", "a">>, <<" ", "b", ":::", " ", "a", " ">>, <<"a", ":::", "b", ":::", "a">>,
     <<":::", "a">>, <<"a", ":::", " ">>, <<"#", "a", ":::", "a">>, <<"[fence]">>, <<"a">>, <<>>}
\* Longer outputs: flashcards around rejected lines, with blank lines at the ends.
SampleOutputs ==
    {<<"b", ":::", "a", "\n", "a", "\n", " ", "a", ":::", "b", ":::", "a", " ">>,
     <<"\n", "[fence]", "\n", "a", ":::", "b", "\n", "b", ":::", "a", "\n", "[fence]", "\n">>,
     <<"#", ":::", "a", "\n", ":::", "\n", "a", ":::">>}
\* One line of any tokens, several lines of SampleLines, or a longer output.
ModelOutputs ==
    SeqsUpTo(GenTokens, MaxLineLen)
    \cup {Join(<<"\n">>, lines) : lines \in SeqsUpTo(SampleLines, MaxLines)}
    \cup SampleOutputs
Invocation(outputs) ==
    {[kind |-> "notfound", rc |-> 1, stdout |-> <<>>],
     [kind |-> "exit", rc |-> 1, stdout |-> <<>>]}
    \cup {[kind |-> "exit", rc |-> 0, stdout |-> o] : o \in outputs}
PrimaryOutcomes == Invocation(ModelOutputs)
SecondaryOutcomes == Invocation({<<>>, <<"a", ":::", "a", "\n", "a">>})
OldGuide == GuideHeader \o <<"b", ":::", "b">>

PptStems == {StemNames[i] : i \in 1..NumPpt}
OldContainer == <<SlideA>>
BatchPrimary == Invocation({<<"a", ":::", "a">>, <<"a">>})
BatchSecondary == Invocation({<<"a", ":::", "a">>})
BatchFaults == {"none", "open"}

----------------------------------------------------------------------------
(* Specifications. *)

IdleShape == /\ shape = PictureShape
             /\ shapeResult = Pending

NoConversion == [stem |-> "", outcomes |-> <<>>, used |-> <<>>, result |-> "none"]
NoRun == [successful |-> 0, failed |-> 0, convFailed |-> {},
          extractFailed |-> {}, ranCombine |-> FALSE, ranGenerate |-> FALSE,
          summary |-> <<>>, raising |-> FALSE]

IdleBatch == /\ basePpt = {}
             /\ basePptx = EmptyDir
             /\ powerpoint = 0
             /\ sessions = {}
             /\ nextId = 1
             /\ killed = FALSE
             /\ pc = "idle"
             /\ todo = <<>>
             /\ conv = NoConversion
             /\ run = NoRun

\* The combiner over any files of the two directories.
InitCombine ==
    /\ defaultDir \in Dirs(Stems, FileTexts)
    /\ notedDir \in Dirs(Stems, FileTexts)
    /\ pptx = EmptyDir
    /\ tempDir = {}
    /\ combined = EmptyDir
    /\ studyGuide = EmptyDir
    /\ last = NoCall
    /\ edits = 0
    /\ IdleShape
    /\ IdleBatch

NextCombine == CombineTextFiles

SpecCombine == InitCombine /\ [][NextCombine]_vars

\* Repeated extraction runs over containers that change between runs.
InitExtract ==
    /\ pptx \in Dirs(ExtractStems, Containers)
    /\ defaultDir = EmptyDir
    /\ notedDir = EmptyDir
    /\ tempDir = {}
    /\ combined = EmptyDir
    /\ studyGuide = EmptyDir
    /\ last = NoCall
    /\ edits = 0
    /\ IdleShape
    /\ IdleBatch

NextExtract ==
    \/ \E s \in ExtractStems, fault \in ExtractFaults, partial \in BOOLEAN :
          ConvertPptxToText(s, fault, partial)
    \/ \E s \in ExtractStems, c \in Containers : EditContainer(s, c)

SpecExtract == InitExtract /\ [][NextExtract]_vars

\* extract_text_from_shape over the shapes of ShapeSet.
InitShape ==
    /\ shape \in ShapeSet
    /\ shapeResult = Pending
    /\ IdleBatch
    /\ pptx = EmptyDir
    /\ defaultDir = EmptyDir
    /\ notedDir = EmptyDir
    /\ tempDir = {}
    /\ combined = EmptyDir
    /\ studyGuide = EmptyDir
    /\ last = NoCall
    /\ edits = 0

ExtractShape ==
    /\ shapeResult = Pending
    /\ shapeResult' = ExtractTextFromShape(shape)
    /\ last' = [op |-> "extract_text_from_shape"]
    /\ UNCHANGED <<fsVars, edits, shape, batchVars>>

NextShape == ExtractShape

SpecShape == InitShape /\ [][NextShape]_vars

\* One call of generate_study_guide with the combined document present.
InitGen ==
    /\ combined = Put(EmptyDir, "combined_notes", CombinedHeader)
    /\ studyGuide \in {EmptyDir, Put(EmptyDir, "study_guide", OldGuide)}
    /\ pptx = EmptyDir
    /\ defaultDir = EmptyDir
    /\ notedDir = EmptyDir
    /\ tempDir = {}
    /\ last = NoCall
    /\ edits = 0
    /\ IdleShape
    /\ IdleBatch

NextGen == \E prim \in PrimaryOutcomes, sec \in SecondaryOutcomes : GenerateCall(prim, sec)

SpecGen == InitGen /\ [][NextGen]_vars

\* One batch run: process_files on a base directory of legacy files and
\* containers, with containers of an earlier run in the pptx directory.
InitBatch ==
    /\ basePpt \in SUBSET PptStems
    /\ basePptx \in Dirs({"F"}, {OldContainer})
    /\ pptx \in Dirs({"A", "F"}, {OldContainer})
    /\ defaultDir = EmptyDir
    /\ notedDir = EmptyDir
    /\ tempDir = {}
    /\ combined = EmptyDir
    /\ studyGuide = EmptyDir
    /\ last = NoCall
    /\ edits = 0
    /\ IdleShape
    /\ powerpoint = 0
    /\ sessions = {}
    /\ nextId = 1
    /\ killed = FALSE
    /\ pc = "start"
    /\ todo = <<>>
    /\ conv = NoConversion
    /\ run = NoRun

NextBatch ==
    \/ \E moveOk \in BOOLEAN : Discover(moveOk)
    \/ \E outcome \in ConvertOutcomes, dispatch \in {"ok", "fail", "partial"},
          partial \in BOOLEAN, rmOk \in BOOLEAN, quitOk \in BOOLEAN :
          ConvertAttempt(outcome, dispatch, partial, rmOk, quitOk)
    \/ ListPptx
    \/ \E fault \in BatchFaults, partial \in BOOLEAN : ExtractNext(fault, partial)
    \/ \E ok \in BOOLEAN : CombineStage(ok)
    \/ \E prim \in BatchPrimary, sec \in BatchSecondary : GenerateStage(prim, sec)
    \/ \E quitOk \in BOOLEAN, rmtreeOk \in BOOLEAN : Finally(quitOk, rmtreeOk)

SpecBatch == InitBatch /\ [][NextBatch]_vars

\* The conversion stage of a batch run alone: discovery, then the retry loop of
\* convert_ppt_to_pptx on each legacy file, up to the listing of the
\* containers.  process_files is one sequential thread whose external calls
\* return, so the stage keeps taking steps while one is possible.
NextConvert ==
    \/ \E moveOk \in BOOLEAN : Discover(moveOk)
    \/ \E outcome \in ConvertOutcomes, dispatch \in {"ok", "fail", "partial"},
          partial \in BOOLEAN, rmOk \in BOOLEAN, quitOk \in BOOLEAN :
          ConvertAttempt(outcome, dispatch, partial, rmOk, quitOk)
    \/ ListPptx

SpecConvert == InitBatch /\ [][NextConvert]_vars /\ WF_vars(NextConvert)

----------------------------------------------------------------------------
(* Properties of the combiner (SpecCombine). *)

CombinedDoc == combined["combined_notes"]
Combined == last.op = "combine" /\ "combined_notes" \in DOMAIN combined

\* The positions of the chapter banners of a combined document, the chapter
\* keys in document order, and the content written under one banner.
ChapterStarts(doc) == {i \in DOMAIN doc : doc[i] = "CHAPTER: "}
NthStart(doc, k) ==
    CHOOSE i \in ChapterStarts(doc) :
        Cardinality({j \in ChapterStarts(doc) : j < i}) = k - 1
ChapterKeys(doc) ==
    [k \in 1..Cardinality(ChapterStarts(doc)) |-> doc[NthStart(doc, k) + 1]]
ChapterBody(doc, i) ==
    LET later == {j \in ChapterStarts(doc) : j > i}
        next == CHOOSE j \in later : \A k \in later : j <= k
    IN  SubSeq(doc, i + 5, IF later = {} THEN Len(doc) - 2 ELSE next - 4)
ChaptersOf(doc, s) == {i \in ChapterStarts(doc) : doc[i + 1] = s}

\* C1: after combine_text_files every stem present in either directory is a
\* chapter of the combined document exactly once, with the noted file's
\* content if there is a noted file and the default file's content otherwise;
\* no other chapter is written.
C1_OneVariantPerChapter ==
    Combined =>
        \A s \in Stems :
            LET occ == ChaptersOf(CombinedDoc, s)
            IN  IF s \in DOMAIN notedDir
                THEN /\ Cardinality(occ) = 1
                     /\ \A i \in occ : ChapterBody(CombinedDoc, i) = notedDir[s]
                ELSE IF s \in DOMAIN defaultDir
                THEN /\ Cardinality(occ) = 1
                     /\ \A i \in occ : ChapterBody(CombinedDoc, i) = defaultDir[s]
                ELSE occ = {}

C1_Witness ==
    /\ Combined
    /\ \E s \in DOMAIN notedDir \cap DOMAIN defaultDir : notedDir[s] # defaultDir[s]
    /\ DOMAIN defaultDir \ DOMAIN notedDir # {}

\* C2: in the combined document every noted chapter precedes every
\* default-only chapter, and inside each of the two blocks the chapters are in
\* ascending file-name order.
C2_TwoSortedBlocks ==
    Combined =>
        LET keys == ChapterKeys(CombinedDoc)
            N == DOMAIN notedDir
        IN  \A i, j \in DOMAIN keys :
                i < j =>
                    \/ keys[i] \in N /\ keys[j] \notin N
                    \/ /\ keys[i] \in N <=> keys[j] \in N
                       /\ Rank(keys[i]) < Rank(keys[j])

\* A default-only chapter follows a noted chapter whose key sorts after it, and
\* both blocks hold two chapters.
C2_Witness ==
    /\ Combined
    /\ LET keys == ChapterKeys(CombinedDoc)
       IN  \E i, j \in DOMAIN keys :
               /\ i < j
               /\ keys[i] \in DOMAIN notedDir
               /\ keys[j] \notin DOMAIN notedDir
               /\ Rank(keys[j]) < Rank(keys[i])

----------------------------------------------------------------------------
(* Properties of the presentation extractor (SpecExtract). *)

\* At least one slide has notes that are non-empty after trimming.
HasNotes(prs) ==
    \E n \in DOMAIN prs : prs[n].has_notes_slide /\ Strip(prs[n].notes) # <<>>

\* C3: when convert_pptx_to_text has just returned true for a container, the
\* default output of its stem holds the body of the container as it is now,
\* and the noted output of that stem exists exactly if a slide has notes.
C3_OutputsMatchContainer ==
    (last.op = "extract" /\ last.ret) =>
        /\ last.stem \in DOMAIN defaultDir
        /\ defaultDir[last.stem] = DefaultText(pptx[last.stem])
        /\ last.stem \in DOMAIN notedDir <=> HasNotes(pptx[last.stem])

----------------------------------------------------------------------------
(* Properties of the shape extractor (SpecShape). *)

\* Whether an access made by extract_text_from_shape raised.
ShapeAccessRaised(s) ==
    IF "text" \in s.attrs THEN s.raises = "text"
    ELSE IF "has_table" \in s.attrs /\ s.has_table
    THEN s.raises = "table" \/ s.failRow \in 1..Len(s.rows)
    ELSE IF "has_chart" \in s.attrs /\ s.has_chart THEN s.raises = "chart"
    ELSE FALSE

\* What the dispatch order yields for a shape: its text; else the rows of its
\* table; else its chart's title; the empty string for anything else and for a
\* shape whose access raises.
DispatchText(s) ==
    IF ShapeAccessRaised(s) THEN <<>>
    ELSE IF "text" \in s.attrs THEN s.text
    ELSE IF "has_table" \in s.attrs /\ s.has_table
    THEN Join(<<"\n">>,
              [r \in DOMAIN s.rows |->
                  Join(<<" ", "|", " ">>,
                       [c \in DOMAIN s.rows[r] |-> Strip(s.rows[r][c])])])
    ELSE IF "has_chart" \in s.attrs /\ s.has_chart
    THEN <<"[Chart: ">>
         \o (IF "chart_title" \in s.chart_attrs THEN s.chart_title ELSE <<"Untitled">>)
         \o <<"]">>
    ELSE <<>>

\* C8: extract_text_from_shape yields, up to the trimming of leading and
\* trailing whitespace, what the dispatch order says, and the empty string for
\* every shape whose access raises.
C8_DispatchOrder ==
    shapeResult # Pending => shapeResult = Strip(DispatchText(shape))

----------------------------------------------------------------------------
(* Properties of the flashcard generator (SpecGen). *)

\* An invocation that could not be launched or exited non-zero.
InvocationFailed(inv) == inv.kind = "notfound" \/ inv.rc # 0

\* The parse contract: a line is accepted exactly if, trimmed, it holds the
\* separator, starts with neither a code fence nor a comment marker, and the
\* parts before and after its first separator are non-empty when trimmed.
FirstSeparator(line) ==
    CHOOSE i \in DOMAIN line : line[i] = ":::" /\ \A j \in 1..(i - 1) : line[j] # ":::"
Accepted(raw) ==
    LET line == Strip(raw)
    IN  /\ \E i \in DOMAIN line : line[i] = ":::"
        /\ line[1] \notin {"[fence]", "#"}
        /\ Strip(SubSeq(line, 1, FirstSeparator(line) - 1)) # <<>>
        /\ Strip(SubSeq(line, FirstSeparator(line) + 1, Len(line))) # <<>>
Flashcard(raw) ==
    LET line == Strip(raw)
    IN  Strip(SubSeq(line, 1, FirstSeparator(line) - 1)) \o <<":::">>
        \o Strip(SubSeq(line, FirstSeparator(line) + 1, Len(line)))
AcceptedCards(stdout) ==
    LET lines == SelectSeq(SplitLines(stdout), Accepted)
    IN  [i \in DOMAIN lines |-> Flashcard(lines[i])]

\* C4: when the primary invocation fails or yields no flashcard, the secondary
\* invocation is attempted; when that fails or yields no flashcard as well,
\* the call returns normally and the study guide file holds the placeholder.
C4_FallbackAndPlaceholder ==
    (last.op = "generate"
        /\ (InvocationFailed(last.prim) \/ AcceptedCards(last.prim.stdout) = <<>>)) =>
        /\ last.launched
        /\ ~last.raised
        /\ (InvocationFailed(last.sec) \/ AcceptedCards(last.sec.stdout) = <<>>) =>
               studyGuide = Put(EmptyDir, "study_guide", Placeholder)

\* C9: whenever a study guide is written, the lines after its header are the
\* flashcards the parse contract accepts, in the order of the output lines of
\* the invocation that produced it.
C9_GuideHoldsAcceptedCards ==
    (last.op = "generate" /\ last.wrote = "guide") =>
        LET source == IF last.launched THEN last.sec.stdout ELSE last.prim.stdout
        IN  /\ "study_guide" \in DOMAIN studyGuide
            /\ studyGuide["study_guide"]
                   = GuideHeader \o Join(<<"\n">>, AcceptedCards(source))

\* A guide of two flashcards written around a rejected line.
C9_Witness ==
    /\ last.op = "generate"
    /\ last.wrote = "guide"
    /\ Len(AcceptedCards(last.prim.stdout)) = 2
    /\ Len(SplitLines(last.prim.stdout)) > 2

----------------------------------------------------------------------------
(* Properties of the batch driver and of the conversion loop (SpecBatch). *)

\* C5: the summary of process_files counts as failed every legacy file whose
\* conversion failed on all attempts and every container whose extraction
\* failed.
C5_FailuresCounted ==
    run.summary # <<>> =>
        run.summary[1].failed = Cardinality(run.convFailed \cup run.extractFailed)

\* C6: at most one automation session is live at any time, the session held
\* is the live one, and when process_files has returned or raised the handle
\* is cleared, the forced kill was issued and no session is live.
C6_OneSessionTornDown ==
    /\ Cardinality(sessions) <= 1
    /\ powerpoint # 0 => sessions = {powerpoint}
    /\ pc = "done" => powerpoint = 0 /\ sessions = {} /\ killed

\* The run started two sessions and ends by an exception.
C6_Witness ==
    /\ pc = "done"
    /\ run.raising
    /\ nextId > 2

\* What holds of the attempts of one convert_ppt_to_pptx call at every step.
ConvertLoopInvariant ==
    conv.result # "none" =>
        LET n == Len(conv.outcomes)
        IN  /\ n \in 1..RetryCount
            /\ \A i \in 1..(n - 1) : conv.outcomes[i] = "fail"
            /\ conv.result = "true" <=> conv.outcomes[n] = "ok"
            /\ conv.result = "false" <=> (n = RetryCount /\ conv.outcomes[n] = "fail")
            /\ \A i, j \in 1..n : (i < j /\ conv.used[i] # 0) => conv.used[j] # conv.used[i]
            /\ (pc = "convert" /\ conv.outcomes[n] = "fail") =>
                   /\ powerpoint = 0
                   /\ sessions = {}
                   /\ conv.stem \notin tempDir

C11_SuccessMeansContainer ==
    (conv.result # "none" /\ (conv.result = "true" \/ conv.stem \notin basePpt)) =>
        /\ conv.stem \in DOMAIN pptx
        /\ pptx[conv.stem] = ConvertedContainer

====
